---------------------------- MODULE Spec2Model ----------------------------
(***************************************************************************)
(* The ledger processing engine of src/src/core.rs: producers hand         *)
(* RawTransaction records to a worker task over an unbounded FIFO channel, *)
(* the worker applies them to the accounts and to the deposit history, and *)
(* a Close request makes it reply once with the accounts and stop.         *)
(*                                                                         *)
(* An Amount (fixed::types::I64F64) is modelled by the integer number of   *)
(* halves it holds (1.5 is 3): the code only adds, subtracts and compares  *)
(* amounts, and the sums reachable within the bounds stay far inside the   *)
(* 128 bits of the type.                                                   *)
(***************************************************************************)
EXTENDS Integers, Sequences, FiniteSets, TLC

VARIABLES
    chan,          \* the mpsc channel: Actions sent and not yet received
    accounts,      \* task's `accounts`: ClientId -> Account
    transactions,  \* task's `transactions`: TransactionId -> Transaction
    worker,        \* "running" | "done" | "panicked": where the spawned task is
    reply,         \* the oneshot channel of the Close request
    closer,        \* where the caller of Task::close is
    result,        \* what Task::close returned
    sendResult,    \* what the last Task::send_tx returned
    log,           \* history: every Action enqueued, in enqueue order, with its sender
    nApplied,      \* history: how many Actions the worker has received
    last,          \* history: the record the worker processed last
    prev,          \* history: accounts and transactions before that record
    ghost          \* history: the deposits the worker has processed

vars == <<chan, accounts, transactions, worker, reply, closer, result,
          sendResult, log, nApplied, last, prev, ghost>>

(***************************************************************************)
(* Bounds of the model.                                                    *)
(***************************************************************************)
MaxSends == 3      \* records the producers send in Spec
MaxRecords == 5    \* records fed to the worker in LedgerSpec
MaxSigned == 4     \* records fed to the worker in SignedLedgerSpec
MaxNoise == 2      \* records the second producer sends in ScenarioSpec

Producers == {1, 2}

Clients == {1, 2}
TxIds == {1, 2}
\* The amounts the records carry, in halves.
Amounts == {1, 2}

TransactionType == {"Deposit", "Withdrawal", "Dispute", "Resolve", "Chargeback"}

RawTransaction ==
    [tx_type : TransactionType, client : Clients, id : TxIds, amount : Amounts]

\* Amount::from_str accepts a sign and zero: the amounts of SignedLedgerSpec.
SignedAmounts == {0 - 1, 0, 1}

SignedTransaction ==
    [tx_type : TransactionType, client : Clients, id : TxIds, amount : SignedAmounts]

\* The records the concurrent producers of Spec draw from: one client, one
\* transaction id, every type; every amount for a deposit or a withdrawal,
\* one amount for the records whose amount the worker never reads.
ProducerRecords ==
    {r \in RawTransaction :
        /\ r.client = 1
        /\ r.id = 1
        /\ r.tx_type \in {"Dispute", "Resolve", "Chargeback"} => r.amount = 1}

EmptyMap == [k \in {} |-> k]

Put(m, k, v) == [x \in (DOMAIN m) \cup {k} |-> IF x = k THEN v ELSE m[x]]

(***************************************************************************)
(* src/src/core/account.rs                                                 *)
(***************************************************************************)
AccountNew(client) ==
    [client |-> client, available |-> 0, held |-> 0, locked |-> FALSE]

\* Mutant of deposit: a locked account takes no deposit.
deposit_unless_locked(self, amount) ==
    IF self.locked
    THEN self
    ELSE [self EXCEPT !.available = self.available + amount]

deposit(self, amount) ==
    [self EXCEPT !.available = self.available + amount]

\* Mutant of withdraw: the amount is paid out whatever is available.
withdraw_unchecked(self, amount) ==
    [self EXCEPT !.available = self.available - amount]

\* Mutant of withdraw: a locked account pays nothing out.
withdraw_unless_locked(self, amount) ==
    IF self.locked \/ amount > self.available
    THEN self
    ELSE [self EXCEPT !.available = self.available - amount]

withdraw(self, amount) ==
    IF amount > self.available
    THEN self
    ELSE [self EXCEPT !.available = self.available - amount]

\* Mutant of hold: the amount is held whatever is available.
hold_unchecked(self, amount) ==
    [self EXCEPT !.available = self.available - amount,
                 !.held = self.held + amount]

hold(self, amount) ==
    IF amount > self.available
    THEN self
    ELSE [self EXCEPT !.available = self.available - amount,
                      !.held = self.held + amount]

\* Mutant of release: the amount comes back but stays held as well.
release_keep_held(self, amount) ==
    IF amount > self.held
    THEN self
    ELSE [self EXCEPT !.available = self.available + amount]

release(self, amount) ==
    IF amount > self.held
    THEN self
    ELSE [self EXCEPT !.available = self.available + amount,
                      !.held = self.held - amount]

\* Mutant of chargeback: refused, like a release, when held is too small.
chargeback_checked(self, amount) ==
    IF amount > self.held
    THEN self
    ELSE [self EXCEPT !.held = self.held - amount, !.locked = TRUE]

chargeback(self, amount) ==
    [self EXCEPT !.held = self.held - amount, !.locked = TRUE]

\* Mutant of RawAccountFrom: the total leaves the held funds out.
RawAccountFrom_available(a) ==
    [client |-> a.client, available |-> a.available, held |-> a.held,
     total |-> a.available, locked |-> a.locked]

RawAccountFrom(a) ==
    [client |-> a.client, available |-> a.available, held |-> a.held,
     total |-> a.available + a.held, locked |-> a.locked]

AccountsNew == EmptyMap

get_or_create(data, client) ==
    IF client \in DOMAIN data THEN data ELSE Put(data, client, AccountNew(client))

exists(data, id) == id \in DOMAIN data

(***************************************************************************)
(* src/src/core/transaction.rs                                             *)
(***************************************************************************)
TransactionFrom(raw) == [raw |-> raw, disputed |-> FALSE]


(***************************************************************************)
(* src/src/core.rs: the body of the worker's loop for Action::RawTx.       *)
(***************************************************************************)
\* Mutant of gated: every record reaches get_or_create.
gated_never(accts, raw_tx) == FALSE

\* core.rs:98: a record that is no deposit and addresses no existing account
\* is skipped.
gated(accts, raw_tx) ==
    raw_tx.tx_type # "Deposit" /\ ~exists(accts, raw_tx.client)

\* Mutant of store_deposit: a deposit replaces the one stored under its id.
store_deposit_overwrite(txs, tx) ==
    IF tx.raw.tx_type = "Deposit" THEN Put(txs, tx.raw.id, tx) ELSE txs

\* Mutant of store_deposit: a record of any type is stored under a free id.
store_deposit_any(txs, tx) ==
    IF tx.raw.id \notin DOMAIN txs THEN Put(txs, tx.raw.id, tx) ELSE txs

\* core.rs:105-113: a deposit is stored under its id unless the id is taken.
store_deposit(txs, tx) ==
    IF tx.raw.tx_type = "Deposit" /\ tx.raw.id \notin DOMAIN txs
    THEN Put(txs, tx.raw.id, tx)
    ELSE txs

\* core.rs:117-148: the effect of the record on its client's account and on
\* the stored transaction it names.
apply_tx(account, txs, tx) ==
    LET id == tx.raw.id
        stored == id \in DOMAIN txs
    IN  CASE tx.raw.tx_type = "Deposit" ->
                [account |-> deposit(account, tx.raw.amount), transactions |-> txs]
          [] tx.raw.tx_type = "Withdrawal" ->
                [account |-> withdraw(account, tx.raw.amount), transactions |-> txs]
          [] tx.raw.tx_type = "Dispute" ->
                IF stored
                THEN [account |-> hold(account, txs[id].raw.amount),
                      transactions |-> [txs EXCEPT ![id].disputed = TRUE]]
                ELSE [account |-> account, transactions |-> txs]
          [] tx.raw.tx_type = "Resolve" ->
                IF stored /\ txs[id].disputed
                THEN [account |-> release(account, txs[id].raw.amount),
                      transactions |-> [txs EXCEPT ![id].disputed = FALSE]]
                ELSE [account |-> account, transactions |-> txs]
          [] tx.raw.tx_type = "Chargeback" ->
                IF stored /\ txs[id].disputed
                THEN [account |-> chargeback(account, txs[id].raw.amount),
                      transactions |-> txs]
                ELSE [account |-> account, transactions |-> txs]

\* Mutant of task_RawTx: a record naming a stored transaction acts on the
\* account of the client that deposited it.
task_RawTx_owner(accts, txs, raw_tx) ==
    IF gated(accts, raw_tx)
    THEN [accounts |-> accts, transactions |-> txs]
    ELSE LET accts1 == get_or_create(accts, raw_tx.client)
             tx == TransactionFrom(raw_tx)
             txs1 == store_deposit(txs, tx)
             target == IF raw_tx.id \in DOMAIN txs1
                       THEN txs1[raw_tx.id].raw.client
                       ELSE raw_tx.client
             out == apply_tx(accts1[target], txs1, tx)
         IN  [accounts |-> Put(accts1, target, out.account),
              transactions |-> out.transactions]

\* core.rs:96-149: the ledger after the worker has processed raw_tx.
task_RawTx(accts, txs, raw_tx) ==
    IF gated(accts, raw_tx)
    THEN [accounts |-> accts, transactions |-> txs]
    ELSE LET accts1 == get_or_create(accts, raw_tx.client)
             tx == TransactionFrom(raw_tx)
             txs1 == store_deposit(txs, tx)
             out == apply_tx(accts1[raw_tx.client], txs1, tx)
         IN  [accounts |-> Put(accts1, raw_tx.client, out.account),
              transactions |-> out.transactions]

(***************************************************************************)
(* The channel and the Actions it carries (core.rs:21-26).                 *)
(***************************************************************************)
RawTxAction(r) == [kind |-> "RawTx", tx |-> <<r>>]
CloseAction == [kind |-> "Close", tx |-> <<>>]

\* Mutant of send: the Action jumps the queue.
send_front(ch, action) == <<action>> \o ch

\* UnboundedSender::send: the Action goes to the back of the queue.
send(ch, action) == Append(ch, action)

\* Mutant of recv: the Action sent last is handed out.
recv_last(ch) == ch[Len(ch)]

\* UnboundedReceiver::recv: the Action at the front of the queue.
recv(ch) == Head(ch)

\* The queue once recv has taken its Action.
recv_rest(ch) == Tail(ch)

Ledger(accts, txs) == [accounts |-> accts, transactions |-> txs]

(***************************************************************************)
(* Init: Task::new has spawned the worker; nothing was sent.               *)
(***************************************************************************)
Init ==
    /\ chan = <<>>
    /\ accounts = AccountsNew
    /\ transactions = EmptyMap
    /\ worker = "running"
    /\ reply = [state |-> "empty", value |-> AccountsNew]
    /\ closer = "idle"
    /\ result = [state |-> "none", value |-> AccountsNew]
    /\ sendResult = "none"
    /\ log = <<>>
    /\ nApplied = 0
    /\ last = <<>>
    /\ prev = Ledger(AccountsNew, EmptyMap)
    /\ ghost = [deposited |-> {}, first |-> EmptyMap, later |-> EmptyMap,
                net |-> EmptyMap, negative |-> FALSE]

(***************************************************************************)
(* Task::send_tx (core.rs:45-50). The Task is still owned (close takes it  *)
(* by value), and the send fails once the worker has dropped the receiver. *)
(***************************************************************************)
SendTx(r) ==
    /\ closer = "idle"
    /\ IF worker = "running"
       THEN chan' = send(chan, RawTxAction(r)) /\ sendResult' = "ok"
       ELSE UNCHANGED chan /\ sendResult' = "err"
    /\ UNCHANGED <<accounts, transactions, worker, reply, closer, result,
                   nApplied, last, prev, ghost>>

\* Producer p sends record r; like main (main.rs:24) it stops at an error.
Producer(p, r) ==
    /\ Len(log) < MaxSends
    /\ sendResult # "err"
    /\ SendTx(r)
    /\ log' = IF worker = "running"
              THEN Append(log, [by |-> p, action |-> RawTxAction(r)])
              ELSE log

(***************************************************************************)
(* Task::close (core.rs:53-66): enqueue the Close request, then poll the   *)
(* oneshot reply.                                                          *)
(***************************************************************************)
CloseSend ==
    /\ closer = "idle"
    /\ IF worker = "running"
       THEN /\ chan' = send(chan, CloseAction)
            /\ log' = Append(log, [by |-> 0, action |-> CloseAction])
            /\ closer' = "polling"
            /\ UNCHANGED result
       ELSE /\ closer' = "failed"
            /\ result' = [state |-> "err", value |-> AccountsNew]
            /\ UNCHANGED <<chan, log>>
    /\ UNCHANGED <<accounts, transactions, worker, reply, sendResult, nApplied,
                   last, prev, ghost>>

\* Mutant of ClosePoll: every error of try_recv is taken for "not yet".
ClosePoll_ignore_closed ==
    /\ closer = "polling"
    /\ IF reply.state = "sent"
       THEN /\ result' = [state |-> "ok", value |-> reply.value]
            /\ reply' = [reply EXCEPT !.state = "taken"]
            /\ closer' = "returned"
       ELSE UNCHANGED <<result, reply, closer>>
    /\ UNCHANGED <<chan, accounts, transactions, worker, sendResult, log, nApplied,
                   last, prev, ghost>>

\* One iteration of the loop around try_recv.
ClosePoll ==
    /\ closer = "polling"
    /\ CASE reply.state = "sent" ->
              /\ result' = [state |-> "ok", value |-> reply.value]
              /\ reply' = [reply EXCEPT !.state = "taken"]
              /\ closer' = "returned"
         [] reply.state = "empty" /\ worker # "running" ->
              /\ result' = [state |-> "err", value |-> AccountsNew]
              /\ closer' = "failed"
              /\ UNCHANGED reply
         [] OTHER ->
              UNCHANGED <<result, reply, closer>>
    /\ UNCHANGED <<chan, accounts, transactions, worker, sendResult, log, nApplied,
                   last, prev, ghost>>

(***************************************************************************)
(* The worker (core.rs:76-156).                                            *)
(***************************************************************************)
\* History of the deposits processed: the clients that deposited, the first
\* deposit seen under each id, and the amounts of the later deposits under it.
Noted(g, raw_tx) ==
    IF raw_tx.tx_type # "Deposit"
    THEN g
    ELSE [deposited |-> g.deposited \cup {raw_tx.client},
          first |-> IF raw_tx.id \in DOMAIN g.first
                    THEN g.first
                    ELSE Put(g.first, raw_tx.id, raw_tx),
          later |-> IF raw_tx.id \in DOMAIN g.first
                    THEN [g.later EXCEPT ![raw_tx.id] = @ \cup {raw_tx.amount}]
                    ELSE Put(g.later, raw_tx.id, {}),
          net |-> g.net,
          negative |-> g.negative]

\* History of the money that entered and left each client's account: plus
\* every deposit, minus every withdrawal the available funds covered, minus
\* the stored amount at every chargeback of a disputed transaction.
Net(net, accts, txs, raw_tx) ==
    LET c == raw_tx.client
        old == IF c \in DOMAIN net THEN net[c] ELSE 0
    IN  CASE raw_tx.tx_type = "Deposit" ->
                Put(net, c, old + raw_tx.amount)
          [] /\ raw_tx.tx_type = "Withdrawal"
             /\ c \in DOMAIN accts
             /\ raw_tx.amount <= accts[c].available ->
                Put(net, c, old - raw_tx.amount)
          [] /\ raw_tx.tx_type = "Chargeback"
             /\ c \in DOMAIN accts
             /\ raw_tx.id \in DOMAIN txs
             /\ txs[raw_tx.id].disputed ->
                Put(net, c, old - txs[raw_tx.id].raw.amount)
          [] OTHER -> net

\* core.rs:96-149: the Action is a record.
HandleRawTx(raw_tx) ==
    LET out == task_RawTx(accounts, transactions, raw_tx)
    IN  /\ accounts' = out.accounts
        /\ transactions' = out.transactions
        /\ last' = <<raw_tx>>
        /\ prev' = Ledger(accounts, transactions)
        /\ ghost' = [Noted(ghost, raw_tx) EXCEPT
                        !.net = Net(ghost.net, accounts, transactions, raw_tx),
                        !.negative = @ \/ raw_tx.amount < 0]
        /\ UNCHANGED <<worker, reply>>

\* Mutant of HandleClose: the loop is left without replying.
HandleClose_no_reply ==
    /\ worker' = "done"
    /\ UNCHANGED <<reply, accounts, transactions, last, prev, ghost>>

\* Mutant of HandleClose: the reply is sent but the loop goes on.
HandleClose_no_break ==
    /\ reply' = [state |-> "sent", value |-> accounts]
    /\ UNCHANGED <<worker, accounts, transactions, last, prev, ghost>>

\* core.rs:150-153: the Action is the Close request: reply with the accounts
\* and leave the loop.
HandleClose ==
    /\ reply' = [state |-> "sent", value |-> accounts]
    /\ worker' = "done"
    /\ UNCHANGED <<accounts, transactions, last, prev, ghost>>

\* core.rs:95-154: what the worker does with a received Action.
Handle(action) ==
    /\ nApplied' = nApplied + 1
    /\ IF action.kind = "RawTx"
       THEN HandleRawTx(action.tx[1])
       ELSE HandleClose

\* core.rs:94: one turn of `while let Some(action) = actions.recv().await`.
TaskStep ==
    /\ worker = "running"
    /\ chan # <<>>
    /\ chan' = recv_rest(chan)
    /\ Handle(recv(chan))
    /\ UNCHANGED <<closer, result, sendResult, log>>

Next ==
    \/ \E p \in Producers, r \in ProducerRecords : Producer(p, r)
    \/ CloseSend
    \/ ClosePoll
    \/ TaskStep

Spec == Init /\ [][Next]_vars

\* The worker task runs on the runtime's worker threads and the caller of
\* close spins on its own thread: both keep taking steps.
FairSpec == Spec /\ WF_vars(TaskStep) /\ WF_vars(ClosePoll)

(***************************************************************************)
(* CrashSpec: Spec with a worker that may panic. The Amount arithmetic of  *)
(* deposit, hold and release (account.rs:36, 56, 65) panics on overflow in *)
(* a build with debug assertions; the amounts that overflow lie outside    *)
(* the model, so the panic is a step any record may take. The unwinding    *)
(* drops the receiver and with it every queued Action, a Close request and *)
(* the sender of its reply included.                                       *)
(***************************************************************************)
WorkerPanic ==
    /\ worker = "running"
    /\ chan # <<>>
    /\ recv(chan).kind = "RawTx"
    /\ worker' = "panicked"
    /\ chan' = <<>>
    /\ UNCHANGED <<accounts, transactions, reply, closer, result, sendResult, log,
                   nApplied, last, prev, ghost>>

CrashNext == Next \/ WorkerPanic

CrashSpec == Init /\ [][CrashNext]_vars

FairCrashSpec == CrashSpec /\ WF_vars(TaskStep) /\ WF_vars(ClosePoll)

(***************************************************************************)
(* LedgerSpec: one producer whose every record the worker receives before  *)
(* the next is sent, drawing from all of RawTransaction.                   *)
(***************************************************************************)
SendAndProcess(r) ==
    /\ worker = "running"
    /\ closer = "idle"
    /\ chan = <<>>
    /\ nApplied < MaxRecords
    /\ Handle(recv(send(chan, RawTxAction(r))))
    /\ sendResult' = "ok"
    /\ UNCHANGED <<chan, closer, result, log>>

LedgerNext == \E r \in RawTransaction : SendAndProcess(r)

LedgerSpec == Init /\ [][LedgerNext]_vars

(***************************************************************************)
(* ScenarioSpec: producer 1 sends the records of the end-to-end scenario   *)
(* (1.0 is 2 halves), producer 2 sends records of client 2 under another   *)
(* id at any point in between, the worker receives them as in Spec.        *)
(***************************************************************************)
Script ==
    << [tx_type |-> "Deposit", client |-> 1, id |-> 1, amount |-> 2],
       [tx_type |-> "Deposit", client |-> 1, id |-> 2, amount |-> 4],
       [tx_type |-> "Withdrawal", client |-> 1, id |-> 3, amount |-> 3],
       [tx_type |-> "Dispute", client |-> 1, id |-> 1, amount |-> 2],
       [tx_type |-> "Chargeback", client |-> 1, id |-> 1, amount |-> 2] >>

NoiseRecords ==
    [tx_type : TransactionType, client : {2}, id : {4}, amount : {1}]

SentBy(p) == Cardinality({i \in 1..Len(log) : log[i].by = p})

ScriptSend ==
    /\ SentBy(1) < Len(Script)
    /\ SendTx(Script[SentBy(1) + 1])
    /\ log' = Append(log, [by |-> 1, action |-> RawTxAction(Script[SentBy(1) + 1])])

NoiseSend(r) ==
    /\ SentBy(2) < MaxNoise
    /\ SendTx(r)
    /\ log' = Append(log, [by |-> 2, action |-> RawTxAction(r)])

ScenarioNext ==
    \/ ScriptSend
    \/ \E r \in NoiseRecords : NoiseSend(r)
    \/ CloseSend
    \/ ClosePoll
    \/ TaskStep

ScenarioSpec == Init /\ [][ScenarioNext]_vars

(***************************************************************************)
(* SignedLedgerSpec: as LedgerSpec, with records that may carry a negative *)
(* or a zero amount.                                                       *)
(***************************************************************************)
SendAndProcessSigned(r) ==
    /\ worker = "running"
    /\ closer = "idle"
    /\ chan = <<>>
    /\ nApplied < MaxSigned
    /\ Handle(recv(send(chan, RawTxAction(r))))
    /\ sendResult' = "ok"
    /\ UNCHANGED <<chan, closer, result, log>>

SignedLedgerNext == \E r \in SignedTransaction : SendAndProcessSigned(r)

SignedLedgerSpec == Init /\ [][SignedLedgerNext]_vars


(***************************************************************************)
(* Helpers of the properties.                                              *)
(***************************************************************************)
\* The ledger obtained by applying the records among entries, in order, to
\* the empty ledger.
RECURSIVE Replay(_)
Replay(entries) ==
    IF entries = <<>>
    THEN Ledger(AccountsNew, EmptyMap)
    ELSE LET before == Replay(SubSeq(entries, 1, Len(entries) - 1))
             e == entries[Len(entries)]
         IN  IF e.action.kind = "RawTx"
             THEN task_RawTx(before.accounts, before.transactions, e.action.tx[1])
             ELSE before

Reversed(entries) == [i \in 1..Len(entries) |-> entries[Len(entries) + 1 - i]]

Applied == SubSeq(log, 1, nApplied)

\* What the worker did last, and the account of that record's client before
\* and after (a client without an account counts as a new account).
Did(type) == last # <<>> /\ last[1].tx_type = type
LastTx == last[1]
HadAccount == LastTx.client \in DOMAIN prev.accounts
Before == IF HadAccount THEN prev.accounts[LastTx.client] ELSE AccountNew(LastTx.client)
After == accounts[LastTx.client]
WasStored == LastTx.id \in DOMAIN prev.transactions
StoredTx == prev.transactions[LastTx.id]

(***************************************************************************)
(* C1. Every account has available >= 0 and held >= 0 in every reachable   *)
(* state.                                                                  *)
(***************************************************************************)
BalanceInvariant ==
    \A c \in DOMAIN accounts : accounts[c].available >= 0 /\ accounts[c].held >= 0

(***************************************************************************)
(* C2. Whatever the producers' interleaving, the Actions still queued are  *)
(* exactly the enqueued ones the worker has not received, in enqueue order *)
(* (so each producer's records keep their send order), and the ledger is   *)
(* the sequential application of the enqueued prefix received so far.      *)
(***************************************************************************)
AppliedInEnqueueOrder ==
    /\ nApplied <= Len(log)
    /\ chan = [i \in 1..(Len(log) - nApplied) |-> log[nApplied + i].action]
    /\ Ledger(accounts, transactions) = Replay(Applied)

\* Records of both producers were applied, and their order mattered.
OrderMattered ==
    /\ nApplied >= 2
    /\ \E i, j \in 1..nApplied : log[i].by = 1 /\ log[j].by = 2
    /\ Ledger(accounts, transactions) = Replay(Applied)
    /\ Replay(Reversed(Applied)) # Replay(Applied)

(***************************************************************************)
(* C3. The snapshot close() returns is the account store obtained by       *)
(* applying every record enqueued before the Close request, in enqueue     *)
(* order, to the empty store.                                              *)
(***************************************************************************)
SnapshotHoldsAllSent ==
    result.state = "ok" =>
        /\ log # <<>>
        /\ log[Len(log)].action = CloseAction
        /\ result.value = Replay(SubSeq(log, 1, Len(log) - 1)).accounts

\* close() returned after MaxSends records of both producers.
SnapshotAfterSends ==
    /\ result.state = "ok"
    /\ Len(log) = MaxSends + 1
    /\ \E i, j \in 1..MaxSends : log[i].by = 1 /\ log[j].by = 2
    /\ result.value # AccountsNew
    /\ result.value = Replay(SubSeq(log, 1, MaxSends)).accounts

(***************************************************************************)
(* C4. Under fair scheduling of the worker and of the polling loop, a      *)
(* close() that has enqueued its request eventually returns Ok.            *)
(***************************************************************************)
CloseReturns == (closer = "polling") ~> (closer = "returned" /\ result.state = "ok")

\* close() returned Ok once the worker had received everything enqueued.
ClosedWithBacklog ==
    /\ closer = "returned"
    /\ result.state = "ok"
    /\ worker = "done"
    /\ nApplied = Len(log)
    /\ Len(log) >= 3

(***************************************************************************)
(* C5. Receiving the Close request, the worker replies once with the       *)
(* accounts as they are and stops: afterwards no record is applied, the    *)
(* accounts and the value replied never change, and no second reply is     *)
(* sent.                                                                   *)
(***************************************************************************)
CloseIsTerminal ==
    [][/\ (reply.state = "empty" /\ reply'.state # "empty") =>
              /\ chan # <<>> /\ Head(chan) = CloseAction /\ chan' = Tail(chan)
              /\ reply' = [state |-> "sent", value |-> accounts]
              /\ worker = "running" /\ worker' = "done"
              /\ accounts' = accounts
       /\ (chan # <<>> /\ Head(chan) = CloseAction /\ chan' = Tail(chan)) =>
              reply.state = "empty" /\ reply'.state = "sent"
       /\ reply.state # "empty" =>
              reply'.value = reply.value /\ reply'.state \in {reply.state, "taken"}
       /\ worker = "done" =>
              UNCHANGED <<worker, accounts, transactions, nApplied, last, prev>>
      ]_vars

\* The reply was sent, with the accounts of a non-empty store.
ReplySent ==
    /\ worker = "done"
    /\ reply.state = "sent"
    /\ reply.value = accounts
    /\ DOMAIN accounts # {}
    /\ chan = <<>>

(***************************************************************************)
(* C6. A record that is no deposit and addresses a client without account  *)
(* changes neither the accounts nor the history, so every account belongs  *)
(* to a client for which a deposit was processed.                          *)
(***************************************************************************)
GatedRecordHasNoEffect ==
    /\ (last # <<>> /\ LastTx.tx_type # "Deposit" /\ ~HadAccount) =>
            accounts = prev.accounts /\ transactions = prev.transactions
    /\ DOMAIN accounts \subseteq ghost.deposited

\* A dispute of a stored deposit by a client that has no account, while
\* another client has one.
GatedDispute ==
    /\ Did("Dispute")
    /\ ~HadAccount
    /\ WasStored
    /\ DOMAIN prev.accounts # {}
    /\ LastTx.client \notin DOMAIN accounts
    /\ ~transactions[LastTx.id].disputed

(***************************************************************************)
(* C7. A deposit of amount a adds exactly a to the client's available      *)
(* balance and leaves held and locked as they were, also when its id is    *)
(* already in the history and when the account is locked.                  *)
(***************************************************************************)
DepositAddsExactly ==
    Did("Deposit") =>
        /\ After.available = Before.available + LastTx.amount
        /\ After.held = Before.held
        /\ After.locked = Before.locked

\* A deposit under a stored id into a locked account.
DepositIntoLocked ==
    /\ Did("Deposit")
    /\ HadAccount
    /\ Before.locked
    /\ WasStored
    /\ LastTx.amount > 0
    /\ After.available = Before.available + LastTx.amount

(***************************************************************************)
(* C8. The history holds, under each id, the first deposit processed with  *)
(* that id, and a dispute of the id that the available funds cover moves   *)
(* exactly that deposit's amount from available to held.                   *)
(***************************************************************************)
FirstDepositWins ==
    /\ DOMAIN transactions = DOMAIN ghost.first
    /\ \A id \in DOMAIN transactions : transactions[id].raw = ghost.first[id]
    /\ (Did("Dispute") /\ HadAccount /\ WasStored
            /\ ghost.first[LastTx.id].amount <= Before.available) =>
        /\ After.available = Before.available - ghost.first[LastTx.id].amount
        /\ After.held = Before.held + ghost.first[LastTx.id].amount

\* A dispute moved the first deposit's amount although a later deposit under
\* the id and the dispute record itself carried other amounts.
DisputeOfDuplicatedId ==
    /\ Did("Dispute")
    /\ HadAccount
    /\ WasStored
    /\ ghost.first[LastTx.id].amount > 0
    /\ \E a \in ghost.later[LastTx.id] : a # ghost.first[LastTx.id].amount
    /\ LastTx.amount # ghost.first[LastTx.id].amount
    /\ After.held = Before.held + ghost.first[LastTx.id].amount
    /\ After.available = Before.available - ghost.first[LastTx.id].amount

(***************************************************************************)
(* C9. A dispute of a stored transaction whose amount exceeds the          *)
(* available balance leaves available, held and the disputed flag as they  *)
(* were.                                                                   *)
(***************************************************************************)
SkippedHoldLeavesFlag ==
    (Did("Dispute") /\ HadAccount /\ WasStored
        /\ StoredTx.raw.amount > Before.available) =>
        /\ After = Before
        /\ transactions[LastTx.id].disputed = StoredTx.disputed

(***************************************************************************)
(* C10. A resolve of a disputed transaction whose amount exceeds the held  *)
(* balance leaves available and held as they were and the transaction      *)
(* disputed.                                                               *)
(***************************************************************************)
SkippedReleaseStaysDisputed ==
    (Did("Resolve") /\ HadAccount /\ WasStored /\ StoredTx.disputed
        /\ StoredTx.raw.amount > Before.held) =>
        /\ After = Before
        /\ transactions[LastTx.id].disputed

(***************************************************************************)
(* C11. A resolve or chargeback of an id that is not stored or not         *)
(* disputed, a dispute of an id that is not stored, and a dispute of an    *)
(* already disputed id that the available funds do not cover change        *)
(* neither the accounts nor the history.                                   *)
(***************************************************************************)
LedgerUnchanged == accounts = prev.accounts /\ transactions = prev.transactions

InvalidInstructionIsNoOp ==
    /\ (Did("Resolve") \/ Did("Chargeback")) /\ (~WasStored \/ ~StoredTx.disputed)
            => LedgerUnchanged
    /\ Did("Dispute") /\ ~WasStored => LedgerUnchanged
    /\ (Did("Dispute") /\ WasStored /\ StoredTx.disputed
            /\ StoredTx.raw.amount > Before.available) => LedgerUnchanged

\* A second dispute of a disputed transaction that the client's available
\* funds no longer cover.
SecondDisputeUncovered ==
    /\ Did("Dispute")
    /\ HadAccount
    /\ WasStored
    /\ StoredTx.disputed
    /\ StoredTx.raw.client = LastTx.client
    /\ Before.held >= StoredTx.raw.amount
    /\ StoredTx.raw.amount > Before.available
    /\ LedgerUnchanged

(***************************************************************************)
(* C14. A chargeback of a stored, disputed transaction subtracts the       *)
(* stored amount from held without a check, locks the account, leaves      *)
(* available alone and leaves the transaction disputed, so that it can be  *)
(* charged back again.                                                     *)
(***************************************************************************)
ChargebackUnchecked ==
    (Did("Chargeback") /\ HadAccount /\ WasStored /\ StoredTx.disputed) =>
        /\ After.held = Before.held - StoredTx.raw.amount
        /\ After.locked
        /\ After.available = Before.available
        /\ transactions = prev.transactions
        /\ transactions[LastTx.id].disputed

\* The same transaction charged back a second time: held went below zero.
ChargedBackAgain ==
    /\ Did("Chargeback")
    /\ HadAccount
    /\ WasStored
    /\ StoredTx.disputed
    /\ StoredTx.raw.client = LastTx.client
    /\ Before.locked
    /\ Before.held < StoredTx.raw.amount
    /\ After.held = Before.held - StoredTx.raw.amount
    /\ After.held < 0

(***************************************************************************)
(* C15. The locked flags do not influence processing: from the ledger      *)
(* before the last record with the locked flags set in any other way, the  *)
(* record yields the same accounts up to locked (same clients, same        *)
(* available, same held) and the same history.                             *)
(***************************************************************************)
WithLocked(accts, flags) ==
    [c \in DOMAIN accts |-> [accts[c] EXCEPT !.locked = flags[c]]]

Balances(accts) ==
    [c \in DOMAIN accts |-> <<accts[c].available, accts[c].held>>]

LockedIsIgnored ==
    last # <<>> =>
        \A flags \in [DOMAIN prev.accounts -> BOOLEAN] :
            LET other == task_RawTx(WithLocked(prev.accounts, flags),
                                    prev.transactions, LastTx)
            IN  /\ Balances(other.accounts) = Balances(accounts)
                /\ other.transactions = transactions

\* A withdrawal took money out of a locked account.
WithdrawalFromLocked ==
    /\ Did("Withdrawal")
    /\ HadAccount
    /\ Before.locked
    /\ After.locked
    /\ After.available = Before.available - LastTx.amount

(***************************************************************************)
(* C16. The history holds deposits only, each under its own id; a stored   *)
(* record is never removed and its id, client and amount never change; a   *)
(* record enters only as the deposit just processed, undisputed; and a     *)
(* disputed flag changes only by a dispute or resolve naming its id.       *)
(***************************************************************************)
HistoryIsStable ==
    /\ \A id \in DOMAIN transactions :
            /\ transactions[id].raw.tx_type = "Deposit"
            /\ transactions[id].raw.id = id
    /\ DOMAIN prev.transactions \subseteq DOMAIN transactions
    /\ \A id \in DOMAIN prev.transactions :
            /\ transactions[id].raw = prev.transactions[id].raw
            /\ transactions[id].disputed # prev.transactions[id].disputed =>
                    (Did("Dispute") \/ Did("Resolve")) /\ LastTx.id = id
    /\ \A id \in DOMAIN transactions \ DOMAIN prev.transactions :
            /\ Did("Deposit")
            /\ transactions[id] = [raw |-> LastTx, disputed |-> FALSE]

\* A resolve cleared the flag of one of two stored deposits.
ResolveClearedFlag ==
    /\ Did("Resolve")
    /\ WasStored
    /\ StoredTx.disputed
    /\ ~transactions[LastTx.id].disputed
    /\ Cardinality(DOMAIN transactions) = 2
    /\ After.available = Before.available + StoredTx.raw.amount

(***************************************************************************)
(* C17. A dispute, resolve or chargeback sent by a client other than the   *)
(* one that made the referenced deposit changes no balance, no locked flag *)
(* and no disputed flag.                                                   *)
(***************************************************************************)
ForeignReferenceHasNoEffect ==
    ((Did("Dispute") \/ Did("Resolve") \/ Did("Chargeback"))
        /\ WasStored /\ StoredTx.raw.client # LastTx.client) => LedgerUnchanged

(***************************************************************************)
(* C18. A record of client c with id t changes at most the account of c    *)
(* and the history entry under t: every other account and every other     *)
(* history record stay as they were, and no account disappears.            *)
(***************************************************************************)
OnlyOwnAccountAndEntry ==
    last # <<>> =>
        /\ DOMAIN prev.accounts \subseteq DOMAIN accounts
        /\ DOMAIN accounts \subseteq DOMAIN prev.accounts \cup {LastTx.client}
        /\ \A c \in DOMAIN prev.accounts \ {LastTx.client} :
                accounts[c] = prev.accounts[c]
        /\ DOMAIN transactions \subseteq DOMAIN prev.transactions \cup {LastTx.id}
        /\ \A id \in DOMAIN prev.transactions \ {LastTx.id} :
                transactions[id] = prev.transactions[id]

\* A dispute of another client's deposit changed the sender's account and
\* that history entry, and nothing else, in a store of two accounts.
ForeignDisputeHitSender ==
    /\ Did("Dispute")
    /\ HadAccount
    /\ WasStored
    /\ StoredTx.raw.client # LastTx.client
    /\ Cardinality(DOMAIN accounts) = 2
    /\ Cardinality(DOMAIN transactions) = 2
    /\ After.held = Before.held + StoredTx.raw.amount
    /\ accounts[StoredTx.raw.client] = prev.accounts[StoredTx.raw.client]
    /\ transactions[LastTx.id].disputed /\ ~StoredTx.disputed

(***************************************************************************)
(* C19. A dispute or a resolve never changes an account's total, and each  *)
(* account's total is the sum of its deposits minus its covered            *)
(* withdrawals minus the amounts of its chargebacks of disputed            *)
(* transactions.                                                           *)
(***************************************************************************)
Total(a) == RawAccountFrom(a).total

TotalIsNetOfMoves ==
    /\ DOMAIN accounts = DOMAIN ghost.net
    /\ \A c \in DOMAIN accounts : Total(accounts[c]) = ghost.net[c]
    /\ (Did("Dispute") \/ Did("Resolve")) /\ HadAccount =>
            Total(After) = Total(Before)

\* A resolve moved money from held back to available: the total stayed, and
\* it is what the account's deposits, withdrawals and chargebacks add up to.
ResolveKeptTotal ==
    /\ Did("Resolve")
    /\ HadAccount
    /\ After.available > Before.available
    /\ After.held < Before.held
    /\ Total(After) = Total(Before)
    /\ Total(After) = ghost.net[LastTx.client]
    /\ Total(After) > 0

(***************************************************************************)
(* C20. As long as no record processed carried a negative amount, every    *)
(* account's available balance is >= 0, whatever disputes, resolves and    *)
(* chargebacks were repeated and whoever's deposit they named.             *)
(***************************************************************************)
AvailableNonNegative ==
    ~ghost.negative => \A c \in DOMAIN accounts : accounts[c].available >= 0

\* Without any negative amount, a chargeback sent by another client than the
\* depositor took that client's held balance below zero; its available
\* balance is still >= 0.
HeldNegativeAvailableNot ==
    /\ ~ghost.negative
    /\ Did("Chargeback")
    /\ HadAccount
    /\ WasStored
    /\ StoredTx.raw.client # LastTx.client
    /\ After.held < 0
    /\ After.available >= 0

(***************************************************************************)
(* C13. From the empty ledger, deposit 1.0 (tx 1), deposit 2.0 (tx 2) and  *)
(* withdrawal 1.5 leave client 1 at available 1.5, held 0, total 1.5,      *)
(* unlocked; the dispute of tx 1 then gives 0.5, 1.0, 1.5, unlocked; the   *)
(* chargeback of tx 1 then gives 0.5, 0, 0.5, locked.                      *)
(***************************************************************************)
ScriptApplied == Cardinality({i \in 1..nApplied : log[i].by = 1})

Row(available, held, total, locked) ==
    [client |-> 1, available |-> available, held |-> held, total |-> total,
     locked |-> locked]

ScenarioRows ==
    /\ ScriptApplied = 3 => RawAccountFrom(accounts[1]) = Row(3, 0, 3, FALSE)
    /\ ScriptApplied = 4 => RawAccountFrom(accounts[1]) = Row(1, 2, 3, FALSE)
    /\ ScriptApplied = 5 => RawAccountFrom(accounts[1]) = Row(1, 0, 1, TRUE)
    /\ (result.state = "ok" /\ SentBy(1) = 5) =>
            RawAccountFrom(result.value[1]) = Row(1, 0, 1, TRUE)

\* The whole scenario was applied and close() returned its last row.
ScenarioDone ==
    /\ ScriptApplied = 5
    /\ result.state = "ok"
    /\ RawAccountFrom(result.value[1]) = Row(1, 0, 1, TRUE)
    /\ prev.accounts[1].held = 2

(***************************************************************************)
(* C12. Once the worker has terminated, a send_tx returns an error and     *)
(* enqueues nothing, and a close returns an error without enqueuing; an    *)
(* error is returned in no other case; and a close that enqueued its       *)
(* request always returns: with an error when the worker panicked before   *)
(* replying.                                                               *)
(***************************************************************************)
ChannelFailuresSurface ==
    /\ [][/\ (worker # "running" /\ sendResult' # sendResult) =>
                 sendResult' = "err" /\ chan' = chan
          /\ (worker # "running" /\ closer = "idle" /\ closer' # "idle") =>
                 closer' = "failed" /\ result'.state = "err" /\ chan' = chan
          /\ (sendResult' = "err" /\ sendResult # "err") => worker # "running"
          /\ (closer' = "failed" /\ closer # "failed") =>
                 worker # "running" /\ result'.state = "err"
         ]_vars
    /\ (closer = "polling") ~> (closer \in {"returned", "failed"})
    /\ (closer = "polling" /\ worker = "panicked") ~>
            (closer = "failed" /\ result.state = "err")

\* close() enqueued its request behind a record, the worker panicked on the
\* record, and close() returned an error.
CloseFailedAfterPanic ==
    /\ worker = "panicked"
    /\ closer = "failed"
    /\ result.state = "err"
    /\ log # <<>>
    /\ log[Len(log)].action = CloseAction
    /\ reply.state = "empty"

=============================================================================
